---- MODULE Spec2Model ----
(***************************************************************************)
(* Model of the honeypot repository.                                       *)
(*                                                                         *)
(*  - main.py: the FastAPI request pipeline `honeypot`, its in-memory      *)
(*    `sessions` dict, `extract_intel`, `heuristic_score`,                 *)
(*    `detect_scam_llm`, `send_final_callback` and `agent_reply`.          *)
(*    Coroutines run on one event loop: the code between two awaits is     *)
(*    one atomic step, and several requests may be suspended at once.      *)
(*  - services/session_manager.py: the SessionManager store.               *)
(*  - services/guvi_callback.py: GuviCallback.send_callback, the retrying  *)
(*    dispatcher.                                                          *)
(*                                                                         *)
(*  - services/intelligence_extractor.py, scam_detector.py and            *)
(*    decision_engine.py: the extractor, the detector and the decision     *)
(*    engine, as functions of their arguments.                             *)
(*                                                                         *)
(* main.py does not use the services package; the two parts share no       *)
(* program state and are checked under separate specifications: Spec,      *)
(* SpecLive, SpecTalk and SpecPlain for the pipeline; SpecStore for the    *)
(* store and the dispatcher, SpecLock for the store's lock, SpecSession    *)
(* for one conversation kept in the store, SpecFn for single calls of the  *)
(* services' functions.                                                    *)
(***************************************************************************)
EXTENDS Integers, Sequences, FiniteSets, TLC

VARIABLES
    sessions,      \* main.py `sessions`: sessionId -> state dict
    pc,            \* per request coroutine: where it is suspended
    req,           \* per request coroutine: [sid, text] of its request
    endpointUp,    \* whether the callback endpoint currently answers 2xx
    posts,         \* per session: callback POST requests sent by the pipeline
    payloads,      \* per session: the payloads of those requests, in order
    delivered,     \* per session: callback POSTs answered with a 2xx status
    heurEvals,     \* per session: evaluations of heuristic_score
    llmCalls,      \* per session: calls of detect_scam_llm
    arrived,       \* per session: the message texts in the order honeypot took them up
    replies,       \* per session: requests answered with a success response
    errors,        \* per session: requests answered with HTTP 500
    store,         \* SessionManager._sessions: sessionId -> SessionState
    storeResult,   \* outcome of the last SessionManager operation
    dpc,           \* per calling thread: position inside send_callback
    dcall,         \* per calling thread: locals of its current or last send_callback
    dresult,       \* per calling thread: value returned by its last send_callback
    confirmed,     \* sessions for which a send_callback attempt was accepted
    opCount,       \* calls made so far on the SessionManager
    lock,          \* SessionManager._lock: the thread holding it, or "free"
    tpc,           \* per store thread: position inside its SessionManager call
    tcall,         \* per store thread: the call it is making and its locals
    fn             \* last call of a function of the services package:
                   \* its name, its arguments and what it returned

pipeVars == <<sessions, pc, req, posts, payloads, delivered, heurEvals,
              llmCalls,
              arrived, replies, errors>>
storeVars == <<store, storeResult, dpc, dcall, dresult, confirmed, opCount,
               lock, tpc, tcall, fn>>
vars == <<sessions, pc, req, endpointUp, posts, payloads, delivered,
          heurEvals, llmCalls,
          arrived, replies, errors,
          store, storeResult, dpc, dcall, dresult, confirmed, opCount,
          lock, tpc, tcall, fn>>

----------------------------------------------------------------------------
(* Bounds of the model *)

\* number of request coroutines that can be in flight at once
NumExecs == 2
\* inbound messages accepted over all sessions
MaxMessages == 2
\* calls made on the SessionManager
MaxOps == 4
\* highest totalMessages the store counts to
MaxCount == 1
\* messages of a conversation of plain messages
MaxPlain == 17
\* highest value HEURISTIC_THRESHOLD is configured with
MaxThreshold == 4
\* highest totalMessages of a session given to should_complete
MaxTotal == 16
\* most suspicious keywords of a session given to get_completion_score
MaxKeywords == 11
\* highest value MAX_MESSAGES_BEFORE_COMPLETE is configured with
MaxBudget == 16

Execs == 1..NumExecs
\* threads calling GuviCallback.send_callback
Callers == {"t1"}
\* threads calling the SessionManager concurrently
Threads == {"t1", "t2"}
Sids == {"s1", "s2"}

----------------------------------------------------------------------------
(* Message texts.  A text is the set of its whitespace separated tokens;   *)
(* the regular expressions and the substring tests of the code are         *)
(* evaluated token by token.                                               *)

Texts ==
    { {"hello"},
      {"urgent", "blocked"},
      {"rahul@upi"},
      {"http://x.co"},
      {"urgent", "9876543210"} }

\* further texts a sender may post: a phone number written with its country
\* code, and a request whose text is missing or empty (get_message turns a
\* missing text into "")
TalkTexts == Texts \cup { {"+919876543210"}, {} }

\* main.py SCAM_KEYWORDS
SCAM_KEYWORDS ==
    {"urgent", "verify", "blocked", "suspend", "account", "kyc", "upi", "bank"}

\* `k in text.lower()`: the keywords occurring as a substring of a token
KeywordsInToken(tok) ==
    CASE tok = "urgent"    -> {"urgent"}
      [] tok = "blocked"   -> {"blocked"}
      [] tok = "rahul@upi" -> {"upi"}
      [] OTHER             -> {}

KeywordsIn(text) == UNION {KeywordsInToken(tok) : tok \in text}

\* re.findall(UPI_REGEX, text)
FindUpi(text) == text \cap {"rahul@upi"}
\* re.findall(URL_REGEX, text)
FindUrl(text) == text \cap {"http://x.co"}
\* re.findall(PHONE_REGEX, text): `+91` and 10 digits, kept with the prefix,
\* or a run of exactly 10 digits
PhoneMatches(tok) ==
    CASE tok = "9876543210"    -> {"9876543210"}
      [] tok = "+919876543210" -> {"+919876543210"}
      [] OTHER                 -> {}
FindPhone(text) == UNION {PhoneMatches(tok) : tok \in text}
\* re.findall(BANK_REGEX, text): a run of 9 to 18 digits, a phone number
\* included; the digits after the `+` of +919876543210 are a 12 digit run
BankMatches(tok) ==
    CASE tok = "9876543210"    -> {"9876543210"}
      [] tok = "+919876543210" -> {"919876543210"}
      [] OTHER                 -> {}
FindBank(text) == UNION {BankMatches(tok) : tok \in text}

heuristic_score(text) == Cardinality(KeywordsIn(text) \cap SCAM_KEYWORDS)

\* the score at which honeypot marks a scam without asking the classifier
HeuristicTrigger == 2
\* honeypot completes when totalMessages exceeds this
MessageLimit == 15

----------------------------------------------------------------------------
(* main.py: session dict and the steps of honeypot *)

EmptyIntel ==
    [bankAccounts |-> {}, upiIds |-> {}, phishingLinks |-> {},
     phoneNumbers |-> {}, suspiciousKeywords |-> {}]

NewState ==
    [scamDetected |-> FALSE, agentActivated |-> FALSE, totalMessages |-> 0,
     conversationComplete |-> FALSE, intelligence |-> EmptyIntel,
     agentNotes |-> "", history |-> <<>>]

NoReq == [sid |-> "s1", text |-> {}, llm |-> "none"]

extract_intel(text, intel) ==
    [bankAccounts       |-> intel.bankAccounts \cup FindBank(text),
     upiIds             |-> intel.upiIds \cup FindUpi(text),
     phishingLinks      |-> intel.phishingLinks \cup FindUrl(text),
     phoneNumbers       |-> intel.phoneNumbers \cup FindPhone(text),
     suspiciousKeywords |-> intel.suspiciousKeywords
                              \cup (KeywordsIn(text) \cap SCAM_KEYWORDS)]

\* lines 252-271: create the session on demand, count and record the message
ArriveOverwrite(ss, sid, text) ==
    LET st == IF sid \in DOMAIN ss THEN ss[sid] ELSE NewState
    IN  [st EXCEPT !.totalMessages = @ + 1,
                   !.history = <<text>>]
Arrive(ss, sid, text) ==
    LET st == IF sid \in DOMAIN ss THEN ss[sid] ELSE NewState
    IN  [st EXCEPT !.totalMessages = @ + 1,
                   !.history = Append(@, text)]

\* line 274: detection runs only while the flag is unset
NeedsDetectionAlways(st) == TRUE
NeedsDetection(st) == ~st.scamDetected

\* lines 277-279 and 282-284
MarkScam(st, how) ==
    [st EXCEPT !.scamDetected = TRUE, !.agentActivated = TRUE,
               !.agentNotes = how]

\* lines 290-294
StopCondition(st) ==
    \/ st.intelligence.upiIds # {}
    \/ st.intelligence.phishingLinks # {}
    \/ st.totalMessages > MessageLimit

\* line 296, executed before the await of send_final_callback
MarkCompleteLate(st) == st
MarkComplete(st) == [st EXCEPT !.conversationComplete = TRUE]

\* line 295: the callback is for a session not yet complete
AlreadyCompleteNever(st) == FALSE
AlreadyComplete(st) == st.conversationComplete

\* lines 286-299: extraction and the decision to stop.  Yields the new
\* session state and whether send_final_callback is awaited.
Finish(st, text) ==
    LET st1 == [st EXCEPT !.intelligence = extract_intel(text, @)]
        send == StopCondition(st1) /\ ~AlreadyComplete(st1)
    IN  [state |-> IF send THEN MarkComplete(st1) ELSE st1, send |-> send]

\* where the coroutine suspends next after extraction and decision
AfterFinish(f) ==
    IF f.send THEN "callback"
    ELSE IF f.state.agentActivated THEN "reply" ELSE "idle"

Put(ss, sid, st) == [s \in (DOMAIN ss) \cup {sid} |-> IF s = sid THEN st ELSE ss[s]]

TotalArrived ==
    LET RECURSIVE Sum(_)
        Sum(S) == IF S = {} THEN 0
                  ELSE LET s == CHOOSE x \in S : TRUE
                       IN  sessions[s].totalMessages + Sum(S \ {s})
    IN  Sum(DOMAIN sessions)

Bump(f, sid) == [f EXCEPT ![sid] = @ + 1]

\* lines 211-217: the payload send_final_callback builds from the session;
\* it is serialised when the request is made, before the coroutine suspends
Payload(sid, st) ==
    [sessionId |-> sid, scamDetected |-> TRUE,
     totalMessagesExchanged |-> st.totalMessages,
     extractedIntelligence |-> st.intelligence,
     agentNotes |-> st.agentNotes]

Sent(f, sid, st) == [f EXCEPT ![sid] = Append(@, Payload(sid, st))]

\* The outcome of one POST to the callback endpoint: an HTTP response with
\* its status code, or an exception of the HTTP client.
Http(code) == [kind |-> "http", code |-> code]
Timeout == [kind |-> "Timeout", code |-> 0]
ConnectionError == [kind |-> "ConnectionError", code |-> 0]
RequestException == [kind |-> "RequestException", code |-> 0]

\* statuses the endpoint answers while it works / while it is failing
UpStatuses == {200, 201, 202, 204}
DownStatuses == {404, 500}
Outcomes == {Http(c) : c \in UpStatuses \cup DownStatuses}
              \cup {Timeout, ConnectionError, RequestException}

\* HTTP success class
Is2xx(o) == o.kind = "http" /\ o.code >= 200 /\ o.code <= 299

EndpointAnswers(up) ==
    IF up THEN {Http(c) : c \in UpStatuses}
    ELSE {Http(c) : c \in DownStatuses}
           \cup {Timeout, ConnectionError, RequestException}

----------------------------------------------------------------------------
(* main.py: the Groq API helper and its users *)

\* What one call of the Groq API meets: no API key configured (no request
\* is made), an exception of the HTTP client, or a response with its status
\* and body.  The body is the content of the first choice, or "malformed"
\* when the JSON lacks that field.
GroqNoKey == [kind |-> "nokey", status |-> 0, body |-> ""]
GroqTimeout == [kind |-> "exception", status |-> 0, body |-> ""]
GroqHttp(status, body) == [kind |-> "http", status |-> status, body |-> body]
GroqBodies == {"SCAM", "NOT_SCAM", "NOT SCAM", "UNCERTAIN", "scam", ""}
GroqOutcomes ==
    {GroqNoKey, GroqTimeout, GroqHttp(500, ""), GroqHttp(200, "malformed")}
      \cup {GroqHttp(200, b) : b \in GroqBodies}
\* the outcomes the pipeline's calls are checked with
PipelineGroq ==
    {GroqNoKey, GroqTimeout, GroqHttp(500, ""), GroqHttp(200, "malformed"),
     GroqHttp(200, "SCAM"), GroqHttp(200, "NOT_SCAM")}

\* the call yields no content: no key, the client raises, raise_for_status
\* raises, or the JSON has no choices[0].message.content
GroqFailed(o) == o.kind # "http" \/ o.status >= 400 \/ o.body = "malformed"

\* str.upper()
Upper(str) == IF str = "scam" THEN "SCAM" ELSE str

\* `sub in str`
Contains(str, sub) ==
    CASE sub = "SCAM"     -> str \in {"SCAM", "NOT_SCAM", "NOT SCAM"}
      [] sub = "NOT"      -> str \in {"NOT_SCAM", "NOT SCAM"}
      [] sub = "NOT_SCAM" -> str = "NOT_SCAM"
      [] sub = "NOT SCAM" -> str = "NOT SCAM"
      [] OTHER            -> str = sub

\* line 119: what `except Exception` of call_groq catches
GroqCatchesClientOnly(o) == o.kind = "exception"
GroqCatches(o) == TRUE

\* lines 96-121: the content string, or None; `raised` when an exception
\* leaves the function
call_groq(o) ==
    IF o.kind = "nokey"
    THEN [raised |-> FALSE, none |-> TRUE, text |-> ""]
    ELSE IF GroqFailed(o)
    THEN [raised |-> ~GroqCatches(o), none |-> TRUE, text |-> ""]
    ELSE [raised |-> FALSE, none |-> FALSE, text |-> o.body]

\* line 139: truth value of
\* `result and "SCAM" in result.upper() and "NOT" not in result.upper()`
detect_scam_llm(r) ==
    /\ ~r.none
    /\ r.text # ""
    /\ Contains(Upper(r.text), "SCAM")
    /\ ~Contains(Upper(r.text), "NOT")

\* lines 219-224: what `except Exception` of send_final_callback catches
SwallowsNothing(outcome) == FALSE
Swallows(outcome) == TRUE

\* an exception leaves send_final_callback
CallbackRaises(outcome) == outcome.kind # "http" /\ ~Swallows(outcome)

\* request coroutines are interchangeable: a new request runs in the lowest
\* free one
FreeExec(e) == pc[e] = "idle" /\ \A e2 \in Execs : pc[e2] = "idle" => e <= e2

\* lines 309-311: an exception inside honeypot is answered with HTTP 500
Abort(e) ==
    /\ pc' = [pc EXCEPT ![e] = "idle"]
    /\ req' = [req EXCEPT ![e] = NoReq]
    /\ errors' = Bump(errors, req[e].sid)
    /\ UNCHANGED <<sessions, posts, payloads, delivered, heurEvals, llmCalls, arrived,
                   replies, endpointUp>>

\* honeypot up to its first await (lines 247-307)
Handle(e, sid, text) ==
    /\ FreeExec(e)
    /\ LET st0 == Arrive(sessions, sid, text)
           detect == NeedsDetection(st0)
           hit == detect /\ heuristic_score(text) >= HeuristicTrigger
           st1 == IF hit
                  THEN MarkScam(st0, "Used urgency and account threat (heuristic)")
                  ELSE st0
       IN  /\ heurEvals' = IF detect THEN Bump(heurEvals, sid) ELSE heurEvals
           /\ arrived' = [arrived EXCEPT ![sid] = Append(@, text)]
           /\ IF detect /\ ~hit
              THEN \* await detect_scam_llm(msg)
                   /\ sessions' = Put(sessions, sid, st1)
                   /\ pc' = [pc EXCEPT ![e] = "llm"]
                   /\ req' = [req EXCEPT ![e] =
                                 [sid |-> sid, text |-> text, llm |-> "none"]]
                   /\ llmCalls' = Bump(llmCalls, sid)
                   /\ posts' = posts
                   /\ payloads' = payloads
                   /\ replies' = replies
              ELSE LET f == Finish(st1, text)
                   IN  /\ sessions' = Put(sessions, sid, f.state)
                       /\ pc' = [pc EXCEPT ![e] = AfterFinish(f)]
                       /\ req' = [req EXCEPT ![e] =
                                     IF AfterFinish(f) = "idle" THEN NoReq
                                     ELSE [sid |-> sid, text |-> text,
                                           llm |-> "none"]]
                       /\ llmCalls' = llmCalls
                       /\ posts' = IF f.send THEN Bump(posts, sid) ELSE posts
                       /\ payloads' = IF f.send THEN Sent(payloads, sid, f.state)
                                       ELSE payloads
                       /\ replies' = IF AfterFinish(f) = "idle"
                                     THEN Bump(replies, sid) ELSE replies
    /\ UNCHANGED <<endpointUp, delivered, errors>>
    /\ UNCHANGED storeVars

\* session ids are interchangeable: a new session takes the first unused one
KnownOrNext(sid) ==
    \/ sid \in DOMAIN sessions
    \/ sid = (IF "s1" \in DOMAIN sessions THEN "s2" ELSE "s1")

\* a request of any session with any text
Receive(e, sid, text) ==
    /\ TotalArrived < MaxMessages
    /\ KnownOrNext(sid)
    /\ Handle(e, sid, text)

\* the next message of a conversation of plain messages, sent once the
\* previous one has been answered
ReceivePlain(e) ==
    /\ \A e2 \in Execs : pc[e2] = "idle"
    /\ TotalArrived < MaxPlain
    /\ Handle(e, "s1", {"hello"})

\* a message sent once the previous one, of any session, has been answered
ReceiveTurn(e, sid, text) ==
    /\ \A e2 \in Execs : pc[e2] = "idle"
    /\ Receive(e, sid, text)

\* detect_scam_llm returns (lines 281-307); o is what its Groq call met
LlmReturn(e, o) ==
    /\ pc[e] = "llm"
    /\ LET r == call_groq(o)
           sid == req[e].sid
           st0 == sessions[sid]
           st1 == IF detect_scam_llm(r)
                  THEN MarkScam(st0, "Used urgency and account threat (LLM)")
                  ELSE st0
           f == Finish(st1, req[e].text)
       IN  IF r.raised
           THEN Abort(e)
           ELSE /\ sessions' = Put(sessions, sid, f.state)
                /\ pc' = [pc EXCEPT ![e] = AfterFinish(f)]
                /\ req' = [req EXCEPT ![e] =
                              IF AfterFinish(f) = "idle" THEN NoReq
                              ELSE [@ EXCEPT !.llm = IF GroqFailed(o)
                                                     THEN "failed"
                                                     ELSE "answered"]]
                /\ posts' = IF f.send THEN Bump(posts, sid) ELSE posts
                /\ payloads' = IF f.send THEN Sent(payloads, sid, f.state)
                                ELSE payloads
                /\ replies' = IF AfterFinish(f) = "idle"
                              THEN Bump(replies, sid) ELSE replies
                /\ UNCHANGED <<endpointUp, delivered, heurEvals, llmCalls,
                               arrived, errors>>
    /\ UNCHANGED storeVars

\* send_final_callback returns (lines 219-224, 301-307): the response status
\* is logged and otherwise ignored, an exception is logged and swallowed
CallbackReturn(e, outcome) ==
    /\ pc[e] = "callback"
    /\ outcome \in EndpointAnswers(endpointUp)
    /\ LET sid == req[e].sid
           next == IF sessions[sid].agentActivated THEN "reply" ELSE "idle"
       IN  IF CallbackRaises(outcome)
           THEN Abort(e)
           ELSE /\ delivered' = IF Is2xx(outcome)
                                THEN Bump(delivered, sid) ELSE delivered
                /\ pc' = [pc EXCEPT ![e] = next]
                /\ req' = [req EXCEPT ![e] = IF next = "idle" THEN NoReq ELSE @]
                /\ replies' = IF next = "idle"
                              THEN Bump(replies, sid) ELSE replies
                /\ UNCHANGED <<sessions, endpointUp, posts, payloads, heurEvals,
                               llmCalls, arrived, errors>>
    /\ UNCHANGED storeVars

\* agent_reply returns and the response is sent (lines 302-307); o is what
\* its Groq call met
ReplyReturn(e, o) ==
    /\ pc[e] = "reply"
    /\ LET r == call_groq(o)
       IN  IF r.raised
           THEN Abort(e)
           ELSE /\ pc' = [pc EXCEPT ![e] = "idle"]
                /\ req' = [req EXCEPT ![e] = NoReq]
                /\ replies' = Bump(replies, req[e].sid)
                /\ UNCHANGED <<sessions, endpointUp, posts, payloads, delivered,
                               heurEvals, llmCalls, arrived, errors>>
    /\ UNCHANGED storeVars

\* the external endpoint starts answering with a success status
EndpointRecover ==
    /\ ~endpointUp
    /\ endpointUp' = TRUE
    /\ UNCHANGED pipeVars
    /\ UNCHANGED storeVars


----------------------------------------------------------------------------
(* services/session_manager.py: SessionManager.  Every operation runs      *)
(* under the manager's lock and is one atomic step.                        *)

\* models/session.py SessionState, as SessionManager creates it.  updatedAt
\* is "created" while it holds the creation stamp and "updated" once a
\* mutation has refreshed it.
NewSessionState(sid) ==
    [sessionId |-> sid, scamDetected |-> FALSE, agentActivated |-> FALSE,
     totalMessages |-> 0, intelligence |-> EmptyIntel,
     conversationHistory |-> <<>>, agentNotes |-> "",
     conversationComplete |-> FALSE, callbackSent |-> FALSE,
     createdAt |-> "created", updatedAt |-> "created"]

FlagFields ==
    {"scamDetected", "agentActivated", "conversationComplete", "callbackSent"}

\* keyword arguments a caller passes to update_session: a field of the
\* session with a value, or a key SessionState does not have
Updates ==
    UNION {[{g} -> BOOLEAN] : g \in FlagFields}
      \cup {[f \in {"agentNotes"} |-> n] : n \in {"", "done"}}
      \cup {[f \in {"noSuchField"} |-> TRUE]}

\* lines 40-44: setattr for every key the session has, then updatedAt
ApplyUpdates(session, updates) ==
    [f \in DOMAIN session |->
        IF f = "updatedAt" THEN "updated"
        ELSE IF f \in DOMAIN updates THEN updates[f]
        ELSE session[f]]

\* one call on the manager, counted against MaxOps
StoreStep ==
    /\ opCount < MaxOps
    /\ opCount' = opCount + 1
    /\ UNCHANGED <<dpc, dcall, dresult, confirmed, endpointUp, fn>>
    /\ UNCHANGED <<lock, tpc, tcall>>
    /\ UNCHANGED pipeVars

\* lines 22-30
get_or_create_session(sid) ==
    /\ StoreStep
    /\ store' = IF sid \in DOMAIN store THEN store
                ELSE Put(store, sid, NewSessionState(sid))
    /\ storeResult' = "session"

\* lines 32-45
update_session(sid, updates) ==
    /\ StoreStep
    /\ IF sid \in DOMAIN store
       THEN /\ store' = Put(store, sid, ApplyUpdates(store[sid], updates))
            /\ storeResult' = "session"
       ELSE /\ store' = store
            /\ storeResult' = "ValueError"

\* lines 47-53
mark_scam_detected(sid) ==
    update_session(sid, [f \in {"scamDetected", "agentActivated"} |-> TRUE])

\* lines 55-62: a missing session is not an error here, None is returned
increment_message_count(sid) ==
    /\ StoreStep
    /\ IF sid \in DOMAIN store
       THEN /\ store[sid].totalMessages < MaxCount
            /\ store' = Put(store, sid,
                   [store[sid] EXCEPT !.totalMessages = @ + 1,
                                      !.updatedAt = "updated"])
            /\ storeResult' = "session"
       ELSE /\ store' = store
            /\ storeResult' = "None"

\* lines 64-70
mark_complete(sid, notes) ==
    update_session(sid,
        [f \in {"conversationComplete", "agentNotes"} |->
            IF f = "agentNotes" THEN notes ELSE TRUE])

\* lines 72-74
mark_callback_sent(sid) ==
    update_session(sid, [f \in {"callbackSent"} |-> TRUE])

----------------------------------------------------------------------------
(* services/session_manager.py at the level of the lock.  A thread calling *)
(* an operation waits for SessionManager._lock, runs the body of the       *)
(* `with self._lock:` block statement by statement while other threads     *)
(* run, and releases the lock on return.                                   *)

LockedOps == {"get_or_create_session", "increment_message_count"}

NoStoreCall == [op |-> "none", sid |-> "s1", loaded |-> 0]

LockFrame ==
    /\ UNCHANGED <<storeResult, dpc, dcall, dresult, confirmed, endpointUp, fn>>
    /\ UNCHANGED pipeVars

\* a thread calls op(sid) and reaches `with self._lock:` (lines 24, 57)
Call(t, op, sid) ==
    /\ tpc[t] = "idle"
    /\ opCount < MaxOps
    /\ opCount' = opCount + 1
    /\ tpc' = [tpc EXCEPT ![t] = "waiting"]
    /\ tcall' = [tcall EXCEPT ![t] = [op |-> op, sid |-> sid, loaded |-> 0]]
    /\ UNCHANGED <<store, lock>>
    /\ LockFrame

\* threading.Lock.acquire: one lock for the whole manager (line 15), taken
\* whatever session the call is for
CanAcquire(t) == lock = "free"

Acquire(t) ==
    /\ tpc[t] = "waiting"
    /\ CanAcquire(t)
    /\ lock' = t
    /\ tpc' = [tpc EXCEPT ![t] = "locked"]
    /\ UNCHANGED <<store, tcall, opCount>>
    /\ LockFrame

\* lines 25 and 58-60: the lookup, and the read of totalMessages by `+= 1`
Load(t) ==
    /\ tpc[t] = "locked"
    /\ tpc' = [tpc EXCEPT ![t] = "loaded"]
    /\ tcall' = [tcall EXCEPT ![t].loaded =
                    IF tcall[t].sid \in DOMAIN store
                    THEN store[tcall[t].sid].totalMessages ELSE 0]
    /\ UNCHANGED <<store, lock, opCount>>
    /\ LockFrame

\* lines 26-30 and 60-62: the write, the return and the release of the lock
StoreAndRelease(t) ==
    /\ tpc[t] = "loaded"
    /\ LET sid == tcall[t].sid
       IN  store' =
             IF tcall[t].op = "get_or_create_session"
             THEN IF sid \in DOMAIN store THEN store
                  ELSE Put(store, sid, NewSessionState(sid))
             ELSE IF sid \in DOMAIN store
                  THEN Put(store, sid,
                         [store[sid] EXCEPT
                             !.totalMessages = tcall[t].loaded + 1,
                             !.updatedAt = "updated"])
                  ELSE store
    /\ lock' = "free"
    /\ tpc' = [tpc EXCEPT ![t] = "idle"]
    /\ UNCHANGED <<tcall, opCount>>
    /\ LockFrame

----------------------------------------------------------------------------
(* Texts given to the functions of the services package, as sets of tokens. *)
(* No token holds one of the multi-word keywords or patterns ("verify now", *)
(* "within N hours"), which do not match inside a single token.             *)

SvcTexts ==
    { {"hello"},
      {"verify"},
      {"kyc", "account"},
      {"blocked", "immediately"},
      {"rahul@upi", "urgently"},
      {"Rahul@UPI"},
      {"bob@verylongdomainname.com"},
      {"http://x.co"},
      {"9876543210"},
      {"+919876543210"},
      {"9198765432"},
      {"123456789012"} }

\* the words of the keyword lists that are substrings of tok.lower()
Within(tok) ==
    CASE tok = "verify"      -> {"verify"}
      [] tok = "kyc"         -> {"kyc"}
      [] tok = "account"     -> {"account"}
      [] tok = "blocked"     -> {"blocked"}
      [] tok = "immediately" -> {"immediately"}
      [] tok = "urgently"    -> {"urgent"}
      [] tok = "rahul@upi"   -> {"upi"}
      [] tok = "Rahul@UPI"   -> {"upi"}
      [] OTHER               -> {}

WithinText(text) == UNION {Within(tok) : tok \in text}

----------------------------------------------------------------------------
(* services/intelligence_extractor.py *)

\* lines 17-22
SUSPICIOUS_KEYWORDS ==
    {"urgent", "verify", "blocked", "suspend", "kyc", "expire",
     "immediately", "account", "bank", "upi", "otp", "password",
     "transfer", "payment", "refund", "prize", "lottery", "winner",
     "click", "link", "confirm", "update", "action", "required"}

\* line 37: `match.lower()`
Lower(str) == IF str = "Rahul@UPI" THEN "rahul@upi" ELSE str

\* lines 28-38: matches of the UPI pattern whose provider has at most 10
\* letters, lower-cased
UpiOfToken(tok) ==
    CASE tok = "rahul@upi" -> {"rahul@upi"}
      [] tok = "Rahul@UPI" -> {"rahul@upi"}
      [] OTHER             -> {}
extract_upi_ids(text) == UNION {UpiOfToken(tok) : tok \in text}

\* line 42: re.findall(PATTERNS["phone"], text)
PhonePatternMatches(tok) ==
    CASE tok = "9876543210"    -> {"9876543210"}
      [] tok = "+919876543210" -> {"+919876543210"}
      [] tok = "9198765432"    -> {"9198765432"}
      [] OTHER                 -> {}

\* lines 47-49: spaces, dashes and `+` removed, then a leading 91 dropped,
\* whether or not it is a country code
StripPrefix(str) ==
    CASE str = "+919876543210" -> "9876543210"
      [] str = "9198765432"    -> "98765432"
      [] OTHER                 -> str

\* line 50: `len(normalized) == 10 and normalized[0] in "6789"`
IsPhone(str) == str \in {"9876543210", "9198765432"}

\* lines 40-52
PhoneOfToken(tok) ==
    {n \in {StripPrefix(m) : m \in PhonePatternMatches(tok)} : IsPhone(n)}
extract_phone_numbers(text) == UNION {PhoneOfToken(tok) : tok \in text}

\* line 56: re.findall(PATTERNS["bank_account"], text); the digits after
\* the `+` of +919876543210 are a 12 digit run
AccountPatternMatches(tok) ==
    CASE tok = "123456789012"  -> {"123456789012"}
      [] tok = "+919876543210" -> {"919876543210"}
      [] tok = "9876543210"    -> {"9876543210"}
      [] tok = "9198765432"    -> {"9198765432"}
      [] OTHER                 -> {}

\* lines 54-66: the matches except 10 digit runs starting with 6-9
AccountOfToken(tok) == {m \in AccountPatternMatches(tok) : ~IsPhone(m)}
extract_bank_accounts(text) == UNION {AccountOfToken(tok) : tok \in text}

\* lines 68-71
extract_urls(text) == text \cap {"http://x.co"}

\* lines 73-80
extract_keywords(text) == WithinText(text) \cap SUSPICIOUS_KEYWORDS

\* lines 97-101: `set(existing) | new`
MergeToggle(existing, new) == (existing \ new) \cup (new \ existing)
Merge(existing, new) == existing \cup new

\* lines 82-104
extract_all(text, existing) ==
    [upiIds             |-> Merge(existing.upiIds, extract_upi_ids(text)),
     phoneNumbers       |-> Merge(existing.phoneNumbers,
                                  extract_phone_numbers(text)),
     bankAccounts       |-> Merge(existing.bankAccounts,
                                  extract_bank_accounts(text)),
     phishingLinks      |-> Merge(existing.phishingLinks, extract_urls(text)),
     suspiciousKeywords |-> Merge(existing.suspiciousKeywords,
                                  extract_keywords(text))]

\* Intelligence records a caller holds before a message is processed
Intels ==
    [upiIds : SUBSET {"rahul@upi"},
     phoneNumbers : SUBSET {"9876543210"},
     bankAccounts : SUBSET {"123456789012"},
     phishingLinks : SUBSET {"http://x.co"},
     suspiciousKeywords : SUBSET {"urgent", "verify"}]

----------------------------------------------------------------------------
(* services/scam_detector.py *)

\* lines 11-18
DETECTOR_SCAM_KEYWORDS ==
    {"blocked", "verify", "urgent", "kyc", "upi", "account", "suspend",
     "immediately", "expire", "warning", "alert", "confirm", "update",
     "bank", "otp", "password", "pin", "limit", "freeze", "restricted",
     "action required", "verify now", "click here", "link below",
     "pay now", "transfer", "wallet", "refund", "prize", "winner",
     "lottery", "lucky", "selected", "reward", "claim", "bonus"}

\* lines 21-31: the patterns that are plain words; the others match no
\* token of SvcTexts
URGENCY_PATTERNS == {"immediately", "asap", "urgent", "expire", "deadline"}

\* lines 61-62
threat_words == {"blocked", "suspend", "freeze", "restricted", "expire"}
urgency_words == {"immediately", "urgent", "now", "asap"}

\* lines 42-71
calculate_heuristic_score(text) ==
    LET found == WithinText(text)
        has_threat == (found \cap threat_words) # {}
        has_urgency == (found \cap urgency_words) # {}
    IN  Cardinality(found \cap DETECTOR_SCAM_KEYWORDS)
          + 2 * Cardinality(found \cap URGENCY_PATTERNS)
          + (IF has_threat /\ has_urgency THEN 3 ELSE 0)

\* line 118: what `except Exception` of _llm_classify catches
ClassifierCatchesClientOnly(o) == o.kind = "exception"
ClassifierCatches(o) == TRUE

\* lines 73-120: the label, and `raised` when an exception leaves the method
llm_classify(o) ==
    LET result == Upper(o.body)
    IN  IF o.kind = "nokey"
        THEN [raised |-> FALSE, label |-> "UNCERTAIN"]
        ELSE IF GroqFailed(o)
        THEN [raised |-> ~ClassifierCatches(o), label |-> "UNCERTAIN"]
        ELSE IF Contains(result, "SCAM") /\ ~Contains(result, "NOT")
        THEN [raised |-> FALSE, label |-> "SCAM"]
        ELSE IF Contains(result, "NOT_SCAM") \/ Contains(result, "NOT SCAM")
        THEN [raised |-> FALSE, label |-> "NOT_SCAM"]
        ELSE [raised |-> FALSE, label |-> "UNCERTAIN"]

\* line 150: `heuristic_score >= 2`, the score that counts as moderate
ModerateNever(score) == FALSE
Moderate(score) == score >= 2

\* lines 136-152: the three tests in the order of the code, each of which
\* can only set is_scam
CombineLlmOverrides(score, threshold, label) ==
    IF label = "NOT_SCAM" THEN FALSE
    ELSE score >= threshold \/ label = "SCAM"
Combine(score, threshold, label) ==
    LET is_scam1 == IF score >= threshold THEN TRUE ELSE FALSE
        is_scam2 == IF label = "SCAM" THEN TRUE ELSE is_scam1
        is_scam3 == IF Moderate(score) /\ label = "UNCERTAIN"
                    THEN TRUE ELSE is_scam2
    IN  is_scam3

\* lines 137-155: the reason string, without the numbers it is formatted
\* with; each test that applies rewrites what the earlier ones left
Reason(score, threshold, label) ==
    LET reason1 == IF score >= threshold
                   THEN "Heuristic score >= threshold" ELSE ""
        reason2 == IF label = "SCAM"
                   THEN IF reason1 # ""
                        THEN "LLM classified as SCAM. Heuristic score >= threshold"
                        ELSE "LLM classified as SCAM"
                   ELSE reason1
        reason3 == IF Moderate(score) /\ label = "UNCERTAIN"
                   THEN "Moderate heuristics + LLM uncertain" ELSE reason2
    IN  IF ~Combine(score, threshold, label)
        THEN "No scam indicators" ELSE reason3

\* lines 122-157, with HEURISTIC_THRESHOLD = threshold
detect(text, o, threshold) ==
    LET score == calculate_heuristic_score(text)
        llm == llm_classify(o)
    IN  [raised |-> llm.raised, score |-> score, label |-> llm.label,
         isScam |-> Combine(score, threshold, llm.label),
         reason |-> Reason(score, threshold, llm.label)]

----------------------------------------------------------------------------
(* services/decision_engine.py: DecisionEngine.should_complete *)

\* config.py MAX_MESSAGES_BEFORE_COMPLETE (default)
MAX_MESSAGES_BEFORE_COMPLETE == 15

\* line 37
urgency_keywords == {"urgent", "immediately", "asap", "now", "expire", "blocked"}

\* line 44: the test of the message count
LimitReachedOnce(total) == total = MAX_MESSAGES_BEFORE_COMPLETE
LimitReached(total) == total >= MAX_MESSAGES_BEFORE_COMPLETE

\* lines 26-47: the first criterion met, in the order of the code, decides
\* the returned reason
should_complete_limit_first(session) ==
    LET intel == session.intelligence
    IN  IF LimitReached(session.totalMessages)
        THEN [complete |-> TRUE, reason |-> "Reached message limit"]
        ELSE IF Cardinality(intel.upiIds) >= 1
        THEN [complete |-> TRUE, reason |-> "Extracted UPI ID(s)"]
        ELSE IF Cardinality(intel.phishingLinks) >= 1
        THEN [complete |-> TRUE, reason |-> "Extracted phishing link(s)"]
        ELSE IF /\ Cardinality(intel.phoneNumbers) >= 1
                /\ (intel.suspiciousKeywords \cap urgency_keywords) # {}
        THEN [complete |-> TRUE,
              reason |-> "Extracted phone number(s) with urgency keywords"]
        ELSE [complete |-> FALSE, reason |-> "Conversation ongoing"]
should_complete(session) ==
    LET intel == session.intelligence
        has_urgency == (intel.suspiciousKeywords \cap urgency_keywords) # {}
    IN  IF Cardinality(intel.upiIds) >= 1
        THEN [complete |-> TRUE, reason |-> "Extracted UPI ID(s)"]
        ELSE IF Cardinality(intel.phishingLinks) >= 1
        THEN [complete |-> TRUE, reason |-> "Extracted phishing link(s)"]
        ELSE IF Cardinality(intel.phoneNumbers) >= 1 /\ has_urgency
        THEN [complete |-> TRUE,
              reason |-> "Extracted phone number(s) with urgency keywords"]
        ELSE IF LimitReached(session.totalMessages)
        THEN [complete |-> TRUE, reason |-> "Reached message limit"]
        ELSE [complete |-> FALSE, reason |-> "Conversation ongoing"]

\* SUSPICIOUS_KEYWORDS in the order of the list (intelligence_extractor.py)
KeywordList ==
    <<"urgent", "verify", "blocked", "suspend", "kyc", "expire",
      "immediately", "account", "bank", "upi", "otp", "password",
      "transfer", "payment", "refund", "prize", "lottery", "winner",
      "click", "link", "confirm", "update", "action", "required">>

\* sessions given to get_completion_score: what one value of each kind and
\* the first n keywords of the list give
ScoreSessions ==
    [intelligence :
        [upiIds : SUBSET {"rahul@upi"},
         phoneNumbers : SUBSET {"9876543210"},
         bankAccounts : SUBSET {"123456789012"},
         phishingLinks : SUBSET {"http://x.co"},
         suspiciousKeywords :
            {{KeywordList[i] : i \in 1..n} : n \in 0..MaxKeywords}],
     totalMessages : 0..MaxTotal]

Min(a, b) == IF a <= b THEN a ELSE b

\* line 62: the keywords' share, `min(len(...) * 2, 20)`
KeywordScoreUncapped(n) == n * 2
KeywordScore(n) == Min(n * 2, 20)

\* lines 65-66: int(msg_ratio * 20) with msg_ratio = totalMessages / budget,
\* a non-negative quotient truncated to an integer
MessageScore(total, budget) == (total * 20) \div budget

\* lines 49-68, with MAX_MESSAGES_BEFORE_COMPLETE = budget
get_completion_score(session, budget) ==
    LET intel == session.intelligence
        score1 == 0 + Cardinality(intel.upiIds) * 30
        score2 == score1 + Cardinality(intel.phishingLinks) * 30
        score3 == score2 + Cardinality(intel.phoneNumbers) * 20
        score4 == score3 + Cardinality(intel.bankAccounts) * 20
        score5 == score4 + KeywordScore(Cardinality(intel.suspiciousKeywords))
        score6 == score5 + MessageScore(session.totalMessages, budget)
    IN  Min(score6, 100)

----------------------------------------------------------------------------
(* Calls of the functions of the services package *)

\* no call has been made yet
NoFn == fn.name = "none"

FnFrame ==
    /\ UNCHANGED <<store, storeResult, dpc, dcall, dresult, confirmed,
                   opCount, endpointUp>>
    /\ UNCHANGED <<lock, tpc, tcall>>
    /\ UNCHANGED pipeVars

\* scam_detector.detect(message) with HEURISTIC_THRESHOLD = threshold, the
\* Groq call meeting o
Detect ==
    /\ NoFn
    /\ \E text \in SvcTexts, o \in GroqOutcomes, threshold \in 1..MaxThreshold :
          fn' = [name |-> "detect", text |-> text, o |-> o,
                 threshold |-> threshold, out |-> detect(text, o, threshold)]
    /\ FnFrame

\* intelligence_extractor.extract_all(text, existing)
ExtractAll ==
    /\ NoFn
    /\ \E text \in SvcTexts, existing \in Intels :
          fn' = [name |-> "extract_all", text |-> text, existing |-> existing,
                 out |-> extract_all(text, existing)]
    /\ FnFrame

\* extract_all called again with the same text on what it returned
ExtractAgain ==
    /\ fn.name = "extract_all"
    /\ fn' = [name |-> "extract_all again", text |-> fn.text,
              existing |-> fn.out, out |-> extract_all(fn.text, fn.out)]
    /\ FnFrame

\* a message is processed for a session holding `existing` that has then
\* received `total` messages: extract_all, then should_complete
Decide ==
    /\ NoFn
    /\ \E text \in SvcTexts, existing \in Intels, total \in 1..MaxTotal :
          LET session == [intelligence |-> extract_all(text, existing),
                          totalMessages |-> total]
          IN  fn' = [name |-> "should_complete", text |-> text,
                     session |-> session, out |-> should_complete(session)]
    /\ FnFrame

\* One conversation handled with the services: its session is fetched from
\* the SessionManager, every message is counted and its intelligence merged
\* into the session.
SessionFrame ==
    /\ UNCHANGED <<storeResult, dpc, dcall, dresult, confirmed, opCount,
                   lock, tpc, tcall, fn, endpointUp>>
    /\ UNCHANGED pipeVars

\* session_manager.get_or_create_session(sid) for a new conversation
OpenSession(sid) ==
    /\ sid \notin DOMAIN store
    /\ store' = Put(store, sid, NewSessionState(sid))
    /\ SessionFrame

\* session_manager.increment_message_count(sid)
CountMessage(sid) ==
    /\ sid \in DOMAIN store
    /\ store[sid].totalMessages < MaxTotal
    /\ store' = Put(store, sid,
                    [store[sid] EXCEPT !.totalMessages = @ + 1,
                                       !.updatedAt = "updated"])
    /\ SessionFrame

\* session.intelligence = intelligence_extractor.extract_all(text,
\* session.intelligence)
MergeIntelligence(sid, text) ==
    /\ sid \in DOMAIN store
    /\ store' = Put(store, sid,
                    [store[sid] EXCEPT
                        !.intelligence = extract_all(text, @)])
    /\ SessionFrame

\* decision_engine.get_completion_score(session) with
\* MAX_MESSAGES_BEFORE_COMPLETE = budget; `after` is the session once the
\* call has returned (the method assigns to no field of it)
Score ==
    /\ NoFn
    /\ \E session \in ScoreSessions, budget \in 1..MaxBudget :
          fn' = [name |-> "get_completion_score", session |-> session,
                 budget |-> budget, after |-> session,
                 out |-> get_completion_score(session, budget)]
    /\ FnFrame

----------------------------------------------------------------------------
(* services/guvi_callback.py: GuviCallback.send_callback.  The method is   *)
(* synchronous; a calling thread blocks in requests.post and in            *)
(* time.sleep, where other threads run.                                    *)

\* GuviCallback.max_retries
max_retries == 3

NoOutcome == [kind |-> "none", code |-> 0]
NoError == [msg |-> "None", attempts |-> 0, last |-> NoOutcome]
NoResult == [ok |-> FALSE, error |-> [NoError EXCEPT !.msg = "no call yet"]]
\* locals of one send_callback call: the session it was given, the three
\* flags it read on entry, the loop's attempt number, the outcomes its
\* attempts met, the last of them, and the seconds slept between attempts
NoCall ==
    [sid |-> "s1", pre |-> <<FALSE, FALSE, FALSE>>, attempt |-> 0,
     seen |-> {}, last |-> NoOutcome, waits |-> <<>>]

\* lines 39-47: the first unmet precondition decides the returned reason
PreconditionError(session) ==
    IF ~session.scamDetected
    THEN [NoError EXCEPT !.msg = "Scam not detected, skipping callback"]
    ELSE IF ~session.conversationComplete
    THEN [NoError EXCEPT !.msg = "Conversation not complete, skipping callback"]
    ELSE IF session.callbackSent
    THEN [NoError EXCEPT !.msg = "Callback already sent for this session"]
    ELSE NoError

\* line 67: the statuses send_callback takes for a success
Accepted2xx(o) == o.kind = "http" /\ o.code >= 200 /\ o.code <= 299
Accepted(o) == o.kind = "http" /\ o.code \in {200, 201, 202}

\* line 87: whether another attempt follows a failed one
RetryAfterUnbounded(attempt) == TRUE
RetryAfter(attempt) == attempt < max_retries

\* line 89: seconds slept after failed attempt number `attempt`
BackoffDoubled(attempt) == 2 ^ attempt
Backoff(attempt) == 2 ^ (attempt - 1)

\* line 94
FailedAfter(last) ==
    [msg |-> "Failed after attempts", attempts |-> max_retries, last |-> last]

DispatchFrame ==
    /\ UNCHANGED <<store, storeResult, opCount, endpointUp, fn>>
    /\ UNCHANGED <<lock, tpc, tcall>>
    /\ UNCHANGED pipeVars

\* lines 27-63: the call, up to the preconditions' verdict or the first POST
SendCallback(c, sid) ==
    /\ dpc[c] = "idle"
    /\ sid \in DOMAIN store
    /\ LET session == store[sid]
           err == PreconditionError(session)
           call == [NoCall EXCEPT
                      !.sid = sid,
                      !.pre = <<session.scamDetected,
                                session.conversationComplete,
                                session.callbackSent>>]
       IN  IF err # NoError
           THEN /\ dcall' = [dcall EXCEPT ![c] = call]
                /\ dresult' = [dresult EXCEPT ![c] = [ok |-> FALSE, error |-> err]]
                /\ dpc' = dpc
           ELSE /\ dcall' = [dcall EXCEPT ![c] = [call EXCEPT !.attempt = 1]]
                /\ dresult' = [dresult EXCEPT ![c] =
                                 [ok |-> FALSE,
                                  error |-> [NoError EXCEPT !.msg = "in progress"]]]
                /\ dpc' = [dpc EXCEPT ![c] = "posting"]
    /\ confirmed' = confirmed
    /\ DispatchFrame

\* lines 57-94: requests.post returns or raises
PostReturn(c, outcome) ==
    /\ dpc[c] = "posting"
    /\ outcome \in EndpointAnswers(endpointUp)
    /\ LET call == [dcall[c] EXCEPT !.last = outcome,
                                    !.seen = @ \cup {outcome}]
       IN  IF Accepted(outcome)
           THEN /\ dcall' = [dcall EXCEPT ![c] = call]
                /\ dresult' = [dresult EXCEPT ![c] = [ok |-> TRUE, error |-> NoError]]
                /\ dpc' = [dpc EXCEPT ![c] = "idle"]
                /\ confirmed' = confirmed \cup {call.sid}
           ELSE IF RetryAfter(call.attempt)
           THEN /\ dcall' = [dcall EXCEPT ![c] =
                               [call EXCEPT !.waits = Append(@, Backoff(call.attempt))]]
                /\ dresult' = dresult
                /\ dpc' = [dpc EXCEPT ![c] = "sleeping"]
                /\ confirmed' = confirmed
           ELSE /\ dcall' = [dcall EXCEPT ![c] = call]
                /\ dresult' = [dresult EXCEPT ![c] =
                                 [ok |-> FALSE, error |-> FailedAfter(outcome)]]
                /\ dpc' = [dpc EXCEPT ![c] = "idle"]
                /\ confirmed' = confirmed
    /\ DispatchFrame

\* time.sleep returns and the loop makes the next attempt
Wake(c) ==
    /\ dpc[c] = "sleeping"
    /\ dcall' = [dcall EXCEPT ![c] = [@ EXCEPT !.attempt = @ + 1]]
    /\ dpc' = [dpc EXCEPT ![c] = "posting"]
    /\ dresult' = dresult
    /\ confirmed' = confirmed
    /\ DispatchFrame

----------------------------------------------------------------------------

InitPipe ==
    /\ sessions = <<>>
    /\ pc = [e \in Execs |-> "idle"]
    /\ req = [e \in Execs |-> NoReq]
    /\ posts = [s \in Sids |-> 0]
    /\ payloads = [s \in Sids |-> <<>>]
    /\ delivered = [s \in Sids |-> 0]
    /\ heurEvals = [s \in Sids |-> 0]
    /\ llmCalls = [s \in Sids |-> 0]
    /\ arrived = [s \in Sids |-> <<>>]
    /\ replies = [s \in Sids |-> 0]
    /\ errors = [s \in Sids |-> 0]

InitStore ==
    /\ store = <<>>
    /\ storeResult = "none"
    /\ dpc = [c \in Callers |-> "idle"]
    /\ dcall = [c \in Callers |-> NoCall]
    /\ dresult = [c \in Callers |-> NoResult]
    /\ confirmed = {}
    /\ opCount = 0
    /\ lock = "free"
    /\ tpc = [t \in Threads |-> "idle"]
    /\ tcall = [t \in Threads |-> NoStoreCall]
    /\ fn = [name |-> "none"]

Init ==
    /\ InitPipe
    /\ InitStore
    /\ endpointUp \in BOOLEAN

Next ==
    \/ \E e \in Execs, sid \in Sids, text \in Texts : Receive(e, sid, text)
    \/ \E e \in Execs, o \in PipelineGroq : LlmReturn(e, o)
    \/ \E e \in Execs, outcome \in Outcomes : CallbackReturn(e, outcome)
    \/ \E e \in Execs, o \in PipelineGroq : ReplyReturn(e, o)
    \/ EndpointRecover

Spec == Init /\ [][Next]_vars

\* conversations whose sender waits for the reply before the next message
NextTurns ==
    \/ \E e \in Execs, sid \in Sids, text \in Texts : ReceiveTurn(e, sid, text)
    \/ \E e \in Execs, o \in PipelineGroq : LlmReturn(e, o)
    \/ \E e \in Execs, outcome \in Outcomes : CallbackReturn(e, outcome)
    \/ \E e \in Execs, o \in PipelineGroq : ReplyReturn(e, o)
    \/ EndpointRecover

\* Every await of honeypot returns: the Groq calls and the callback POST run
\* under a client timeout (main.py:103, 220).
Fairness ==
    WF_vars(\E e \in Execs :
               \/ \E o \in PipelineGroq : LlmReturn(e, o)
               \/ \E outcome \in Outcomes : CallbackReturn(e, outcome)
               \/ \E o \in PipelineGroq : ReplyReturn(e, o))

SpecLive == Init /\ [][NextTurns]_vars /\ Fairness

\* the same conversations over the wider set of texts
NextTalk ==
    \/ \E e \in Execs, sid \in Sids, text \in TalkTexts : ReceiveTurn(e, sid, text)
    \/ \E e \in Execs, o \in PipelineGroq : LlmReturn(e, o)
    \/ \E e \in Execs, outcome \in Outcomes : CallbackReturn(e, outcome)
    \/ \E e \in Execs, o \in PipelineGroq : ReplyReturn(e, o)
    \/ EndpointRecover

SpecTalk == Init /\ [][NextTalk]_vars

\* one conversation of consecutive plain messages
NextPlain ==
    \/ \E e \in Execs : ReceivePlain(e)
    \/ \E e \in Execs, o \in PipelineGroq : LlmReturn(e, o)
    \/ \E e \in Execs, outcome \in Outcomes : CallbackReturn(e, outcome)
    \/ \E e \in Execs, o \in PipelineGroq : ReplyReturn(e, o)
    \/ EndpointRecover

SpecPlain == Init /\ [][NextPlain]_vars

\* the functions of the services package, called on any arguments
NextFn ==
    \/ Detect
    \/ ExtractAll
    \/ ExtractAgain
    \/ Decide
    \/ Score

SpecFn == Init /\ [][NextFn]_vars

NextStore ==
    \/ \E sid \in Sids : get_or_create_session(sid)
    \/ \E sid \in Sids : mark_callback_sent(sid)
    \/ \E sid \in Sids : mark_scam_detected(sid)
    \/ \E sid \in Sids, notes \in {"", "done"} : mark_complete(sid, notes)
    \/ \E sid \in Sids : increment_message_count(sid)
    \/ \E sid \in Sids, u \in Updates : update_session(sid, u)
    \/ \E c \in Callers, sid \in Sids : SendCallback(c, sid)
    \/ \E c \in Callers, outcome \in Outcomes : PostReturn(c, outcome)
    \/ \E c \in Callers : Wake(c)
    \/ EndpointRecover

SpecStore == Init /\ [][NextStore]_vars

\* one conversation handled with the services
NextSession ==
    \/ OpenSession("s1")
    \/ CountMessage("s1")
    \/ \E text \in SvcTexts : MergeIntelligence("s1", text)

SpecSession == Init /\ [][NextSession]_vars

\* threads calling the SessionManager concurrently
NextLock ==
    \/ \E t \in Threads, op \in LockedOps, sid \in Sids : Call(t, op, sid)
    \/ \E t \in Threads : Acquire(t)
    \/ \E t \in Threads : Load(t)
    \/ \E t \in Threads : StoreAndRelease(t)

SpecLock == Init /\ [][NextLock]_vars

----------------------------------------------------------------------------
(* Properties *)

\* the flags send_callback read on entry met all three preconditions
PreMet(c) == dcall[c].pre = <<TRUE, TRUE, FALSE>>
\* thread c has made a send_callback call that has returned
Returned(c) == dpc[c] = "idle" /\ dresult[c] # NoResult

\* C1: no sequence of pipeline steps and session-store operations changes
\* scamDetected, conversationComplete or callbackSent of a session from true
\* to false.
C1_FlagsNeverRevert ==
    [][ /\ \A s \in DOMAIN sessions :
             /\ sessions[s].scamDetected => sessions'[s].scamDetected
             /\ sessions[s].conversationComplete => sessions'[s].conversationComplete
        /\ \A s \in DOMAIN store :
             /\ store[s].scamDetected => store'[s].scamDetected
             /\ store[s].conversationComplete => store'[s].conversationComplete
             /\ store[s].callbackSent => store'[s].callbackSent ]_vars

\* C2: a send_callback call made on a session whose callbackSent is true
\* makes no network call and returns failure with the "already sent" reason.
C2_SentMeansAlreadySent ==
    \A c \in Callers :
        dcall[c].pre[3] =>
            /\ dpc[c] = "idle"
            /\ dcall[c].attempt = 0
            /\ dresult[c] =
                 [ok |-> FALSE,
                  error |-> [NoError EXCEPT
                               !.msg = "Callback already sent for this session"]]

\* C3: however the pipeline executions of one session interleave, the
\* callback endpoint receives at most one POST for the session, hence at
\* most one successful one.
C3_AtMostOnePost ==
    \A s \in Sids : posts[s] <= 1 /\ delivered[s] <= posts[s]

\* two executions of one session are in flight, one waiting for the callback
\* POST it sent and the other past its own decision to stop
C3_Witness ==
    \E e1 \in Execs, e2 \in Execs :
        /\ e1 # e2
        /\ req[e1].sid = req[e2].sid
        /\ pc[e1] = "callback"
        /\ pc[e2] = "reply"
        /\ StopCondition(sessions[req[e1].sid])
        /\ posts[req[e1].sid] = 1

\* C4: a dispatcher invoked for a session with scamDetected false,
\* conversationComplete false or callbackSent true returns failure and sends
\* nothing; no callback POST is made for a session whose scamDetected is
\* false.
C4_NoPostUnlessPreconditions ==
    [][ /\ \A s \in Sids :
             posts'[s] > posts[s] => sessions'[s].scamDetected
        /\ \A c \in Callers :
             (dcall'[c] # dcall[c] /\ ~PreMet(c)')
                => dpc'[c] = "idle" /\ dcall'[c].attempt = 0 /\ ~dresult'[c].ok
      ]_vars

\* the delivery of session s was tried and failed, and no attempt is pending
RetryDue(s) ==
    /\ s \in DOMAIN sessions
    /\ sessions[s].scamDetected
    /\ sessions[s].conversationComplete
    /\ posts[s] > 0
    /\ delivered[s] = 0
    /\ \A e \in Execs : ~(pc[e] = "callback" /\ req[e].sid = s)

\* C5: a failed delivery leaves a scam-detected, finalized session in a
\* state from which a later message retries it: once the endpoint answers
\* with success again, a message processed for the session triggers a new
\* delivery attempt.
C5_FailedDeliveryIsRetried ==
    [][ \A s \in Sids :
          (/\ RetryDue(s)
           /\ endpointUp
           /\ sessions'[s].totalMessages > sessions[s].totalMessages)
             => posts'[s] > posts[s] ]_vars

\* C6: a send_callback call whose preconditions are met makes between 1 and
\* 3 attempts; it goes on after a failed attempt that is not the third,
\* stops at the first successful attempt and never makes a fourth.
C6_OneToThreeAttempts ==
    \A c \in Callers :
        /\ dcall[c].attempt \in 0..3
        /\ PreMet(c) => dcall[c].attempt >= 1
        /\ dpc[c] = "sleeping" => dcall[c].attempt < 3
        /\ dpc[c] # "idle" =>
              \A o \in dcall[c].seen : ~(o.kind = "http" /\ o.code \in {200, 201, 202})
        /\ (Returned(c) /\ PreMet(c) /\ ~dresult[c].ok) => dcall[c].attempt = 3
        /\ (Returned(c) /\ dresult[c].ok) =>
              /\ dcall[c].last.kind = "http"
              /\ dcall[c].last.code \in {200, 201, 202}

\* a call that failed once, slept, and succeeded on its second attempt
C6_Witness ==
    \E c \in Callers :
        /\ Returned(c)
        /\ dresult[c].ok
        /\ dcall[c].attempt = 2
        /\ dcall[c].waits = <<1>>

\* C7 as claimed: an attempt answered with any status from 200 to 299 is a
\* success, so a call never goes on after one, and a call returns success
\* exactly when one of its attempts received such a status.
C7_Any2xxSucceeds ==
    \A c \in Callers :
        LET got2xx == \E o \in dcall[c].seen :
                         o.kind = "http" /\ o.code >= 200 /\ o.code <= 299
        IN  /\ dpc[c] = "sleeping" => ~got2xx
            /\ (Returned(c) /\ PreMet(c)) => (dresult[c].ok <=> got2xx)

\* C7 as amended: an attempt is a success exactly when it is answered with
\* status 200, 201 or 202; every other status, a timeout and a connection
\* failure are failed attempts; a call returns success exactly when one of
\* its attempts received 200, 201 or 202.
C7_Only200To202Succeeds ==
    \A c \in Callers :
        LET gotOk == \E o \in dcall[c].seen :
                        o.kind = "http" /\ o.code \in {200, 201, 202}
        IN  /\ dpc[c] = "sleeping" => ~gotOk
            /\ (Returned(c) /\ PreMet(c)) => (dresult[c].ok <=> gotOk)

\* a call that returned failure although one of its attempts was answered
\* with status 204
C7_Witness ==
    \E c \in Callers :
        /\ Returned(c)
        /\ PreMet(c)
        /\ ~dresult[c].ok
        /\ Http(204) \in dcall[c].seen

C9_StickyDetection ==
    [][ \A s \in Sids :
          (heurEvals'[s] # heurEvals[s] \/ llmCalls'[s] # llmCalls[s])
             => (s \notin DOMAIN sessions \/ ~sessions[s].scamDetected) ]_vars

\* a session marked scam on its first message whose second message was
\* processed without detection
C9_Witness ==
    \E s \in DOMAIN sessions :
        /\ sessions[s].scamDetected
        /\ sessions[s].totalMessages = 2
        /\ heurEvals[s] = 1

\* C10: in every state callbackSent implies conversationComplete and
\* agentActivated implies scamDetected.
C10_FlagImplications ==
    /\ \A s \in DOMAIN sessions :
          sessions[s].agentActivated => sessions[s].scamDetected
    /\ \A s \in DOMAIN store :
          /\ store[s].callbackSent => store[s].conversationComplete
          /\ store[s].agentActivated => store[s].scamDetected

\* C11: callbackSent of a session is true only if a delivery attempt for
\* that session has already been confirmed successful by the endpoint.
C11_SentOnlyAfterSuccess ==
    \A s \in DOMAIN store : store[s].callbackSent => s \in confirmed

\* C12: under every schedule of inbound messages, concurrent ones of the
\* same session included, totalMessages of a session is the number of its
\* messages taken up so far, each message raises it by exactly 1, and the
\* history holds the messages in the order they were taken up.
C12_CountAndOrder ==
    /\ [](\A s \in Sids :
            IF s \in DOMAIN sessions
            THEN /\ sessions[s].totalMessages = Len(arrived[s])
                 /\ sessions[s].history = arrived[s]
            ELSE arrived[s] = <<>>)
    /\ [][ \A s \in DOMAIN sessions :
             sessions'[s].totalMessages =
                 sessions[s].totalMessages
                     + (IF arrived'[s] # arrived[s] THEN 1 ELSE 0) ]_vars

\* two messages of one session, both suspended in the classifier call, have
\* been counted and recorded in their order of arrival
C12_Witness ==
    \E e1 \in Execs, e2 \in Execs :
        /\ e1 # e2
        /\ pc[e1] = "llm" /\ pc[e2] = "llm"
        /\ req[e1].sid = req[e2].sid
        /\ sessions[req[e1].sid].totalMessages = 2
        /\ sessions[req[e1].sid].history = <<{"hello"}, {"urgent", "9876543210"}>>

\* C13: the pipeline executions of successive messages of one session do
\* not overlap: no message of a session is taken up while an earlier message
\* of that session is still suspended in the classifier call.
C13_NoOverlap ==
    [][ \A s \in Sids :
          arrived'[s] # arrived[s]
             => ~\E e \in Execs : pc[e] = "llm" /\ req[e].sid = s ]_vars

\* every message taken up for session s has been through the completion check
Processed(s) == ~\E e \in Execs : pc[e] = "llm" /\ req[e].sid = s

\* C14: should_complete is true exactly when upiIds is non-empty, or
\* phishingLinks is non-empty, or phoneNumbers is non-empty with an urgency
\* keyword among suspiciousKeywords, or totalMessages has reached the
\* budget; and the pipeline finalizes a session at the first processed
\* message after which this is so.
C14_CompletionCriteria ==
    \A s \in DOMAIN sessions :
        LET st == sessions[s]
            criteria ==
                \/ st.intelligence.upiIds # {}
                \/ st.intelligence.phishingLinks # {}
                \/ /\ st.intelligence.phoneNumbers # {}
                   /\ \E k \in st.intelligence.suspiciousKeywords :
                         k \in {"urgent", "immediately", "asap", "now",
                                "expire", "blocked"}
                \/ st.totalMessages >= 15
        IN  /\ should_complete(st).complete <=> criteria
            /\ Processed(s) => (st.conversationComplete <=> criteria)

\* C15: with a budget of 15, in a session of plain messages only, the 16th
\* message is the one on which should_complete is true, with the reason
\* citing the message limit, and on which the session is finalized: neither
\* is so after 15 messages, both are so after 16.
C15_SixteenthMessage ==
    \A s \in DOMAIN sessions :
        Processed(s) =>
            LET st == sessions[s]
            IN  /\ (should_complete(st) =
                       [complete |-> TRUE, reason |-> "Reached message limit"])
                      <=> st.totalMessages >= 16
                /\ st.conversationComplete <=> st.totalMessages >= 16

\* C16: whenever processing a message leaves upiIds of the session
\* non-empty, should_complete is true with the reason citing the UPI
\* extraction, whatever totalMessages is and whatever other intelligence
\* the session holds.
C16_UpiCompletesFirst ==
    (fn.name = "should_complete" /\ fn.session.intelligence.upiIds # {})
        => fn.out = [complete |-> TRUE, reason |-> "Extracted UPI ID(s)"]

\* the first message of a session yields a UPI id
C16_WitnessFirst ==
    /\ fn.name = "should_complete"
    /\ fn.session.totalMessages = 1
    /\ fn.session.intelligence.upiIds = {"rahul@upi"}
    /\ fn.out.complete

\* a UPI id together with a link, a phone number, an urgency keyword and a
\* message count past the budget
C16_Witness ==
    /\ fn.name = "should_complete"
    /\ fn.session.totalMessages = 16
    /\ fn.session.intelligence.upiIds # {}
    /\ fn.session.intelligence.phishingLinks # {}
    /\ fn.session.intelligence.phoneNumbers # {}
    /\ "urgent" \in fn.session.intelligence.suspiciousKeywords
    /\ fn.out.reason = "Extracted UPI ID(s)"

\* C17: detect returns isScam = true exactly when the heuristic score
\* reaches the configured threshold, or the external result is SCAM, or the
\* score is at least 2 and the external result is UNCERTAIN; a failed
\* classifier call counts as UNCERTAIN.
C17_DetectRule ==
    fn.name = "detect" =>
        LET s == fn.out.score
            t == fn.threshold
            e == fn.out.label
        IN  /\ e \in {"SCAM", "NOT_SCAM", "UNCERTAIN"}
            /\ fn.out.isScam <=>
                  (s >= t \/ e = "SCAM" \/ (s >= 2 /\ e = "UNCERTAIN"))
            /\ s >= t => fn.out.isScam
            /\ GroqFailed(fn.o) => e = "UNCERTAIN"

\* a message whose score reaches the threshold, answered NOT_SCAM by the
\* classifier, is a scam
C17_Witness ==
    /\ fn.name = "detect"
    /\ fn.out.score = 7
    /\ fn.threshold = 3
    /\ fn.out.label = "NOT_SCAM"
    /\ fn.out.isScam

\* C20: extract_all(T, extract_all(T, I)) = extract_all(T, I), set by set.
C20_IdempotentExtraction ==
    fn.name = "extract_all again" =>
        /\ fn.out.upiIds = fn.existing.upiIds
        /\ fn.out.phoneNumbers = fn.existing.phoneNumbers
        /\ fn.out.bankAccounts = fn.existing.bankAccounts
        /\ fn.out.phishingLinks = fn.existing.phishingLinks
        /\ fn.out.suspiciousKeywords = fn.existing.suspiciousKeywords

\* a text whose second extraction found a phone number, an account number
\* and nothing new
C20_Witness ==
    /\ fn.name = "extract_all again"
    /\ fn.text = {"+919876543210"}
    /\ fn.out.phoneNumbers = {"9876543210"}
    /\ "919876543210" \in fn.out.bankAccounts
    /\ fn.out = fn.existing

\* C18: a failure of the external classifier neither raises out of
\* detection nor aborts the pipeline: the step in which detect_scam_llm
\* returns answers no error, leaves the message extracted and the
\* completion check made, and ends in a reply or on the way to one; after a
\* failed call the message is not classified as a scam.
C18_ClassifierFailureAbsorbed ==
    [][ \A e \in Execs :
          (pc[e] = "llm" /\ pc'[e] # "llm") =>
             LET sid == req[e].sid
             IN  /\ errors'[sid] = errors[sid]
                 /\ sessions'[sid].intelligence =
                       extract_intel(req[e].text, sessions[sid].intelligence)
                 /\ StopCondition(sessions'[sid])
                       => sessions'[sid].conversationComplete
                 /\ IF pc'[e] = "idle"
                    THEN replies'[sid] = replies[sid] + 1
                    ELSE /\ pc'[e] \in {"callback", "reply"}
                         /\ req'[e].llm = "failed"
                               => sessions'[sid].scamDetected
                                     = sessions[sid].scamDetected ]_vars

\* the classifier call of a message with a link failed; the message was
\* not marked a scam, its link was extracted and the session finalized
C18_Witness ==
    \E e \in Execs :
        /\ pc[e] = "callback"
        /\ req[e].llm = "failed"
        /\ req[e].text = {"http://x.co"}
        /\ ~sessions[req[e].sid].scamDetected
        /\ sessions[req[e].sid].intelligence.phishingLinks = {"http://x.co"}
        /\ sessions[req[e].sid].conversationComplete
        /\ errors[req[e].sid] = 0

\* requests of session s that have not been answered yet
InFlight(s) == Cardinality({e \in Execs : pc[e] # "idle" /\ req[e].sid = s})

\* C19: every message that enters the pipeline is eventually answered with
\* a reply, whatever the classifier call, the reply generation and the
\* callback delivery meet; no request is answered with an error.
C19_AlwaysReplies ==
    /\ [](\A s \in Sids :
            /\ errors[s] = 0
            /\ replies[s] + InFlight(s) = Len(arrived[s]))
    /\ \A s \in Sids : \A n \in 1..MaxMessages :
          (Len(arrived[s]) >= n) ~> (replies[s] >= n)

\* a session whose only callback POST failed and whose messages have all
\* been answered
C19_Witness ==
    \E s \in DOMAIN sessions :
        /\ posts[s] = 1
        /\ delivered[s] = 0
        /\ sessions[s].agentActivated
        /\ InFlight(s) = 0
        /\ replies[s] = 2

----------------------------------------------------------------------------
(* Intelligence sets *)

IntelFields ==
    {"bankAccounts", "upiIds", "phishingLinks", "phoneNumbers",
     "suspiciousKeywords"}

\* a number as bare digits, without the country code it is written with
BarePhone(str) ==
    CASE str = "+919876543210" -> "9876543210"
      [] str = "919876543210"  -> "9876543210"
      [] OTHER                 -> str

\* no two UPI ids equal after case folding, no two phone numbers equal as
\* bare digits without the country code
NoDuplicates(intel) ==
    /\ \A a, b \in intel.upiIds : Lower(a) = Lower(b) => a = b
    /\ \A a, b \in intel.phoneNumbers : BarePhone(a) = BarePhone(b) => a = b

\* C21: for the whole life of a session each of the five intelligence sets
\* only grows (every value present before a step is present after it) and
\* never holds two entries that are equal after normalization (UPI ids
\* case-folded, phone numbers as bare digits without country code).
C21_GrowNoDuplicates ==
    /\ [](\A s \in DOMAIN sessions : NoDuplicates(sessions[s].intelligence))
    /\ [][\A s \in DOMAIN sessions : \A f \in IntelFields :
             sessions[s].intelligence[f] \subseteq sessions'[s].intelligence[f]]_vars

----------------------------------------------------------------------------
(* Store operations addressed to a missing session *)

\* a mutating operation of the SessionManager is called for sid
Mutation(sid) ==
    \/ \E u \in Updates : update_session(sid, u)
    \/ mark_scam_detected(sid)
    \/ increment_message_count(sid)
    \/ \E notes \in {"", "done"} : mark_complete(sid, notes)
    \/ mark_callback_sent(sid)

\* C22: update, markScamDetected, incrementMessageCount, markComplete and
\* markCallbackSent addressed to a sessionId that does not exist each fail
\* with the not-found error (the ValueError of update_session), create no
\* session and leave every existing session unchanged.
C22_MissingSessionFails ==
    [][\A sid \in Sids :
          (sid \notin DOMAIN store /\ Mutation(sid))
             => (storeResult' = "ValueError" /\ store' = store)]_vars

----------------------------------------------------------------------------
(* Concurrent calls on the SessionManager *)

\* thread t is making an update
Updating(t) == tcall[t].op = "increment_message_count"
\* thread t is inside the locked block of an update
Inside(t) == Updating(t) /\ tpc[t] \in {"locked", "loaded"}
\* thread t has called an update and has not entered its locked block yet
Waiting(t) == Updating(t) /\ tpc[t] = "waiting"

\* C23: two concurrent updates to the same sessionId never interleave (each
\* read-modify-write is atomic), and an update to one session is never
\* blocked by an update in progress on a different session: while a thread
\* is inside an update of session A, an update of session B can proceed.
C23_AtomicAndIndependent ==
    \A t1, t2 \in Threads :
        t1 # t2 =>
          /\ ~(Inside(t1) /\ Inside(t2) /\ tcall[t1].sid = tcall[t2].sid)
          /\ (Inside(t1) /\ Waiting(t2) /\ tcall[t1].sid # tcall[t2].sid)
                => ENABLED Acquire(t2)

----------------------------------------------------------------------------
(* Requests without text *)

\* C24: an inbound message with missing or empty text is rejected before
\* entering the pipeline: no session is created for its sessionId, and an
\* existing session's totalMessages, history, flags and intelligence are
\* left unchanged.
C24_EmptyTextRejected ==
    [][\A e \in Execs, sid \in Sids :
          Handle(e, sid, {}) => (sessions' = sessions /\ arrived' = arrived)]_vars

----------------------------------------------------------------------------
(* Phone numbers and bank accounts *)

\* C25: no number occurring in the text is classified both as a phone number
\* and as a bank account by one extract_all call: a digit run that yields an
\* entry of phoneNumbers (a number written with a country-code prefix
\* included) yields no entry of bankAccounts.
C25_NoDoubleClassification ==
    fn.name = "extract_all" =>
        \A p \in extract_phone_numbers(fn.text),
           a \in extract_bank_accounts(fn.text) :
            (p \in fn.out.phoneNumbers /\ a \in fn.out.bankAccounts)
                => BarePhone(a) # p

\* C26: every standalone run of exactly 10 digits whose first digit is 6-9
\* occurring in the text appears in the phoneNumbers result of extract_all as
\* those same 10 digits, whatever its second digit is (numbers that begin
\* with 91 included), and every entry of phoneNumbers is a 10 digit string
\* starting with 6-9.
C26_TenDigitNumbersExtracted ==
    fn.name = "extract_all" =>
        /\ \A tok \in fn.text : IsPhone(tok) => tok \in fn.out.phoneNumbers
        /\ \A p \in fn.out.phoneNumbers : IsPhone(p)

----------------------------------------------------------------------------
(* The reason detect returns *)

\* C27: the reason returned by detect is the justification of the first
\* applicable rule in the order (1) heuristic score >= threshold, (2) external
\* result SCAM, (3) score >= 2 with external result UNCERTAIN: when rule 1
\* applies the reason is the heuristic-threshold reason even if rule 2 or
\* rule 3 also applies.
C27_FirstReasonWins ==
    fn.name = "detect" =>
        LET rule1 == fn.out.score >= fn.threshold
            rule2 == fn.out.label = "SCAM"
            rule3 == fn.out.score >= 2 /\ fn.out.label = "UNCERTAIN"
        IN  /\ rule1 => fn.out.reason = "Heuristic score >= threshold"
            /\ (~rule1 /\ rule2) => fn.out.reason = "LLM classified as SCAM"
            /\ (~rule1 /\ ~rule2 /\ rule3)
                  => fn.out.reason = "Moderate heuristics + LLM uncertain"

----------------------------------------------------------------------------
(* The completion score *)

\* C28: for every session with non-negative counts and every positive budget
\* get_completion_score returns an integer in [0,100] equal to
\* min(100, 30*|upiIds| + 30*|phishingLinks| + 20*|phoneNumbers|
\*          + 20*|bankAccounts| + min(2*|suspiciousKeywords|, 20)
\*          + floor(20*totalMessages/budget)),
\* and computing it changes no session field.
C28_CompletionScore ==
    fn.name = "get_completion_score" =>
        LET intel == fn.session.intelligence
            keywords == 2 * Cardinality(intel.suspiciousKeywords)
            sum == 30 * Cardinality(intel.upiIds)
                     + 30 * Cardinality(intel.phishingLinks)
                     + 20 * Cardinality(intel.phoneNumbers)
                     + 20 * Cardinality(intel.bankAccounts)
                     + (IF keywords > 20 THEN 20 ELSE keywords)
                     + (CHOOSE q \in 0..(20 * MaxTotal) :
                          /\ q * fn.budget <= 20 * fn.session.totalMessages
                          /\ 20 * fn.session.totalMessages < (q + 1) * fn.budget)
        IN  /\ fn.out \in 0..100
            /\ fn.out = (IF sum > 100 THEN 100 ELSE sum)
            /\ fn.after = fn.session

\* a call for a session with more than 10 keywords, a message count that is
\* no multiple of the budget, and a score below the cap
C28_Witness ==
    /\ fn.name = "get_completion_score"
    /\ Cardinality(fn.session.intelligence.suspiciousKeywords) > 10
    /\ (20 * fn.session.totalMessages) % fn.budget # 0
    /\ fn.out > 20
    /\ fn.out < 100

----------------------------------------------------------------------------
(* Stability of the completion decision *)

\* C29: should_complete is stable: once it is true for a session state it is
\* true for every later state of that session reached by processing further
\* messages (intelligence merged by extract_all, totalMessages incremented).
C29_CompletionStable ==
    [][\A sid \in DOMAIN store :
          should_complete(store[sid]).complete
             => should_complete(store'[sid]).complete]_vars

\* a session that was complete by its message count, or by a UPI id, and has
\* had a further message counted and merged since
C29_Witness ==
    /\ "s1" \in DOMAIN store
    /\ store["s1"].totalMessages > MAX_MESSAGES_BEFORE_COMPLETE
    /\ store["s1"].intelligence.upiIds = {}
    /\ store["s1"].intelligence.phishingLinks = {}
    /\ store["s1"].intelligence.bankAccounts # {}
    /\ should_complete(store["s1"]).reason = "Reached message limit"

----------------------------------------------------------------------------
(* detect without a verdict of the classifier *)

\* C30: when the external classifier result is UNCERTAIN, which is always the
\* case when no credential is configured or the call fails, detect returns
\* isScam = true exactly when the heuristic score is >= min(threshold, 2);
\* for every configured threshold greater than 2 the threshold has no effect
\* on the verdict in that case.
C30_UncertainVerdict ==
    fn.name = "detect" =>
        /\ (fn.o.kind = "nokey" \/ GroqFailed(fn.o)) => fn.out.label = "UNCERTAIN"
        /\ fn.out.label = "UNCERTAIN" =>
              /\ fn.out.isScam <=>
                    fn.out.score >= (IF fn.threshold < 2 THEN fn.threshold ELSE 2)
              /\ fn.threshold > 2 =>
                    \A other \in 3..MaxThreshold :
                        detect(fn.text, fn.o, other).isScam = fn.out.isScam

\* no credential, a score of 2 and a threshold above it: a scam all the same
C30_Witness ==
    /\ fn.name = "detect"
    /\ fn.o.kind = "nokey"
    /\ fn.out.score = 2
    /\ fn.threshold > 2
    /\ fn.out.isScam

----------------------------------------------------------------------------
(* Messages after finalization *)

\* every value of intelligence record a is in record b
IntelWithin(a, b) == \A f \in IntelFields : a[f] \subseteq b[f]

\* C31: in the request pipeline, messages processed after a session has been
\* finalized still increase totalMessages and still extend its intelligence,
\* but never change conversationComplete and never trigger another callback
\* attempt, so intelligence extracted after finalization is never delivered
\* to the callback endpoint: the one payload sent stays what it was.
C31_AfterFinalization ==
    [][\A s \in DOMAIN sessions :
          sessions[s].conversationComplete =>
            /\ sessions'[s].conversationComplete
            /\ posts'[s] = posts[s]
            /\ payloads'[s] = payloads[s]
            /\ Len(payloads[s]) = 1
            /\ IntelWithin(sessions[s].intelligence, sessions'[s].intelligence)
            /\ \A e \in Execs, text \in TalkTexts :
                  Handle(e, s, text) =>
                    /\ sessions'[s].totalMessages = sessions[s].totalMessages + 1
                    /\ pc'[e] # "llm" =>
                          IntelWithin(extract_intel(text, EmptyIntel),
                                  sessions'[s].intelligence)
            /\ \A e \in Execs :
                  (pc[e] = "llm" /\ req[e].sid = s /\ pc'[e] # "llm") =>
                      IntelWithin(extract_intel(req[e].text, EmptyIntel),
                              sessions'[s].intelligence)]_vars

\* a finalized session whose callback was answered, and which has since
\* processed a message that added a phone number the payload does not hold
C31_Witness ==
    \E s \in DOMAIN sessions :
        /\ sessions[s].conversationComplete
        /\ Processed(s)
        /\ delivered[s] = 1
        /\ Len(payloads[s]) = 1
        /\ sessions[s].totalMessages > payloads[s][1].totalMessagesExchanged
        /\ sessions[s].intelligence.phoneNumbers # {}
        /\ payloads[s][1].extractedIntelligence.phoneNumbers = {}

====
